---- MODULE Spec2Model ----
(***************************************************************************)
(* Usage / billing reconciliation core of backend/server.ts.               *)
(*                                                                         *)
(* The server is one Node.js process: the code between two `await`s of a   *)
(* handler runs without interruption, and the local usage file is read and *)
(* written with synchronous fs calls.  Every action below is therefore one *)
(* external call of a request (a Supabase query, a fetch) together with    *)
(* the synchronous code that follows it up to the next external call.      *)
(* A Supabase query or fetch may succeed or fail each time it is issued.   *)
(*                                                                         *)
(* updatedAt is a wall-clock stamp that no decision reads; it is left out  *)
(* of the records.                                                         *)
(***************************************************************************)
EXTENDS Integers, FiniteSets, Sequences, TLC

\* const FREE_IMAGE_LIMIT = 1;
FREE_IMAGE_LIMIT == 1

\* number of HTTP requests the server receives in one run
NumReqs == 2

Reqs == 1..NumReqs

\* caller-supplied user identifiers
Users == {"u1", "u2"}

None == "none"

\* undefined / null of an optional provider id
Undefined == "undefined"
Null == "null"

\* users[userId] of usage.json, or the app_usage row, when there is none
NoRecord == [absent |-> TRUE]
NoRow == [absent_row |-> TRUE]
NoView == [absent_view |-> TRUE]

\* no pure function is being looked at on its own
NoCall == [fn |-> None]

VARIABLES
    supabase,      \* TRUE iff the Supabase client was created at startup (not null)
    app_usage,     \* the remote table public.app_usage: user_id -> row
    usageFile,     \* backend/data/usage.json
    lemonWebhookSecret,  \* TRUE iff LEMON_SQUEEZY_WEBHOOK_SECRET is set and not blank
    req,           \* the requests: their inputs, position, locals and response
    reveOk,        \* per user, the image-generation calls the provider completed
    call           \* a call of a pure function on its own: its arguments and result

vars == <<supabase, app_usage, usageFile, lemonWebhookSecret, req, reveOk, call>>

----------------------------------------------------------------------------
(* Records, rows and the usage view *)

\* the default record of getOrCreateLocalUsageRecord / updateLocalUsageRecord
NewRecord(userId) ==
    [userId |-> userId, generatedCount |-> 0, billingStatus |-> "free",
     lemonCustomerId |-> Undefined, lemonSubscriptionId |-> Undefined]

\* the row inserted by getOrCreateSupabaseUsageRecord (the lemon columns default to null)
NewRow(userId) ==
    [user_id |-> userId, generated_count |-> 0, billing_status |-> "free",
     lemon_customer_id |-> Null, lemon_subscription_id |-> Null]

mapDbUsageRowToUsageRecord(row) ==
    [userId |-> row.user_id,
     generatedCount |-> row.generated_count,
     billingStatus |-> row.billing_status,
     lemonCustomerId |->
        IF row.lemon_customer_id = Null THEN Undefined ELSE row.lemon_customer_id,
     lemonSubscriptionId |->
        IF row.lemon_subscription_id = Null THEN Undefined ELSE row.lemon_subscription_id]

\* the row object handed to .upsert() in updateUsageRecord
UpsertRow(userId, next) ==
    [user_id |-> userId,
     generated_count |-> next.generatedCount,
     billing_status |-> next.billingStatus,
     lemon_customer_id |->
        IF next.lemonCustomerId = Undefined THEN Null ELSE next.lemonCustomerId,
     lemon_subscription_id |->
        IF next.lemonSubscriptionId = Undefined THEN Null ELSE next.lemonSubscriptionId]

Max(a, b) == IF a >= b THEN a ELSE b

\* buildUsageView with the comparison `remainingFree >= 0`
buildUsageViewNeverExhausted(record) ==
    LET remainingFree == Max(0, FREE_IMAGE_LIMIT - record.generatedCount)
        hasActiveSubscription == record.billingStatus = "active"
        canGenerate == hasActiveSubscription \/ remainingFree >= 0
    IN  [userId |-> record.userId,
         generatedCount |-> record.generatedCount,
         freeLimit |-> FREE_IMAGE_LIMIT,
         remainingFree |-> remainingFree,
         billingStatus |-> record.billingStatus,
         hasActiveSubscription |-> hasActiveSubscription,
         canGenerate |-> canGenerate]

buildUsageView(record) ==
    LET remainingFree == Max(0, FREE_IMAGE_LIMIT - record.generatedCount)
        hasActiveSubscription == record.billingStatus = "active"
        canGenerate == hasActiveSubscription \/ remainingFree > 0
    IN  [userId |-> record.userId,
         generatedCount |-> record.generatedCount,
         freeLimit |-> FREE_IMAGE_LIMIT,
         remainingFree |-> remainingFree,
         billingStatus |-> record.billingStatus,
         hasActiveSubscription |-> hasActiveSubscription,
         canGenerate |-> canGenerate]

\* the two updaters handed to updateUsageRecord:
\*   "inc"            markGenerationUsage:  generatedCount + 1
\*   "active"/"free"  setBillingStatus:     billingStatus set
ApplyUpdater(updater, record) ==
    IF updater = "inc"
    THEN [record EXCEPT !.generatedCount = record.generatedCount + 1]
    ELSE [record EXCEPT !.billingStatus = updater]

----------------------------------------------------------------------------
(* The local-file backend *)

\* usage.json before its first write, and with a users map
NoUsers == [u \in Users |-> NoRecord]
MissingFile == [exists |-> FALSE, form |-> "none", users |-> NoUsers]
JsonFile(users) == [exists |-> TRUE, form |-> "store", users |-> users]

\* usage.json holding something else than a store: text that JSON.parse
\* rejects ("invalid"), JSON whose users member is absent, falsy or not of
\* type object ("nousers"), and JSON whose users member is an array ("array":
\* typeof [] is "object", so the array is taken for the users map)
CorruptForms == {"invalid", "nousers", "array"}
CorruptFile(form) == [exists |-> TRUE, form |-> form, users |-> NoUsers]

\* ensureUsageStore: the parsed store; a missing file, unparsable text and JSON
\* without a users object are an empty store; array tells that users is a
\* JavaScript array
ensureUsageStore(file) ==
    IF ~file.exists \/ file.form \in {"invalid", "nousers"}
    THEN [array |-> FALSE, users |-> NoUsers]
    ELSE [array |-> file.form = "array", users |-> file.users]

\* saveUsageStore: JSON.stringify writes the indexed elements of an array only,
\* so records assigned under a user id to an array are not written
saveUsageStore(store) ==
    IF store.array THEN CorruptFile("array") ELSE JsonFile(store.users)

\* result: the record returned and the file left on disk
getOrCreateLocalUsageRecord(file, userId) ==
    LET store == ensureUsageStore(file)
        existing == store.users[userId]
        created == NewRecord(userId)
    IN  IF existing # NoRecord
        THEN [record |-> existing, file |-> file]
        ELSE [record |-> created,
              file |-> saveUsageStore([store EXCEPT !.users[userId] = created])]

\* updateLocalUsageRecord that starts from the default record every time
updateLocalUsageRecordFromDefault(file, userId, updater) ==
    LET store == ensureUsageStore(file)
        next == ApplyUpdater(updater, NewRecord(userId))
    IN  [record |-> next, file |-> saveUsageStore([store EXCEPT !.users[userId] = next])]

\* updateLocalUsageRecord that writes a document holding the updated record only
updateLocalUsageRecordAlone(file, userId, updater) ==
    LET store == ensureUsageStore(file)
        current == IF store.users[userId] # NoRecord THEN store.users[userId]
                   ELSE NewRecord(userId)
        next == ApplyUpdater(updater, current)
    IN  [record |-> next, file |-> JsonFile([NoUsers EXCEPT ![userId] = next])]

\* updateLocalUsageRecord that returns the updated record without saving it
updateLocalUsageRecordUnsaved(file, userId, updater) ==
    LET store == ensureUsageStore(file)
        current == IF store.users[userId] # NoRecord THEN store.users[userId]
                   ELSE NewRecord(userId)
    IN  [record |-> ApplyUpdater(updater, current), file |-> saveUsageStore(store)]

updateLocalUsageRecord(file, userId, updater) ==
    LET store == ensureUsageStore(file)
        current == IF store.users[userId] # NoRecord THEN store.users[userId]
                   ELSE NewRecord(userId)
        next == ApplyUpdater(updater, current)
    IN  [record |-> next, file |-> saveUsageStore([store EXCEPT !.users[userId] = next])]

----------------------------------------------------------------------------
(* Requests *)

IdleReq ==
    [kind |-> "idle",        \* idle | create | enhance | status | webhook
     userId |-> None,
     hasInput |-> FALSE,     \* prompt (create) / referenceImageBase64 (enhance) given
     body |-> None,          \* webhook: what req.body is
     sig |-> None,           \* webhook: the X-Signature header
     eventName |-> None,     \* webhook: meta.event_name of the payload, if it has one
     pc |-> "idle",          \* the external call the request waits for, or done
     at |-> None,            \* the caller of the store call in flight
     updater |-> None,       \* the updater of the updateUsageRecord call in flight
     current |-> NoRecord,   \* `current` of updateUsageRecord
     usage |-> NoView,       \* `usage` of the handler
     usageAfter |-> NoView,  \* `usageAfter` of the handler
     optCalls |-> 0,         \* calls made to the prompt-optimization provider
     reveCalls |-> 0,        \* calls made to the image-generation provider
     reveResult |-> None,    \* ok | error
     checkout |-> None,      \* url | message: what the 402 response carries
     viaRemote |-> FALSE,    \* a store call of the request was served by Supabase
     viaLocal |-> FALSE,     \* a store call of the request was served by the local file
     status |-> 0]           \* the HTTP status answered, 0 before the response

Respond(q, status) == [q EXCEPT !.status = status, !.pc = "done"]

\* the handler with the quota check left out
AdmitUnchecked(q, usage) ==
    IF ~q.hasInput
    THEN [q EXCEPT !.usage = usage, !.status = 400, !.pc = "done"]
    ELSE [q EXCEPT !.usage = usage, !.pc = "optimize"]

\* lines 847-873 / 912-955: the admission decision and the validation after it
Admit(q, usage) ==
    IF ~usage.canGenerate
    THEN [q EXCEPT !.usage = usage, !.pc = "checkout"]
    ELSE IF ~q.hasInput
         THEN Respond([q EXCEPT !.usage = usage], 400)
         ELSE [q EXCEPT !.usage = usage, !.pc = "optimize"]

\* the code that runs when `await getUsageRecord(userId)` returns `record`
AfterGet(q, record) ==
    CASE q.at = "admit"  -> Admit(q, buildUsageView(record))
      [] q.at = "status" -> Respond([q EXCEPT !.usage = buildUsageView(record)], 200)
      [] q.at = "update" -> [q EXCEPT !.current = record, !.pc = "upsert"]
      [] q.at = "after"  -> Respond([q EXCEPT !.usageAfter = buildUsageView(record)], 200)

\* the code that runs when `await updateUsageRecord(...)` returns
AfterUpdate(q) ==
    IF q.kind = "webhook"
    THEN Respond(q, 200)
    ELSE [q EXCEPT !.at = "after", !.pc = "get"]

----------------------------------------------------------------------------
(* Webhook events *)

activationEvents ==
    {"order_created", "subscription_created", "subscription_resumed",
     "subscription_unpaused", "subscription_payment_success"}

deactivationEvents ==
    {"subscription_cancelled", "subscription_expired", "subscription_paused",
     "subscription_payment_failed"}

\* event names a webhook may carry: the recognised ones and one that is not
EventNames == activationEvents \cup deactivationEvents \cup {"subscription_updated"}

\* verifyLemonSignature that accepts every header that is present
verifyLemonSignatureAnyHeader(secretSet, sig) ==
    ~secretSet \/ sig # "missing"

\* sig: the X-Signature header is the HMAC of the body (valid), another
\* string (invalid), or absent (missing)
verifyLemonSignature(secretSet, sig) ==
    IF ~secretSet THEN TRUE
    ELSE IF sig = "missing" THEN FALSE
    ELSE sig = "valid"

----------------------------------------------------------------------------
(* Initial state: a freshly started server, empty table, no usage file *)

Init ==
    /\ supabase \in BOOLEAN
    /\ lemonWebhookSecret \in BOOLEAN
    /\ app_usage = [u \in Users |-> NoRow]
    /\ usageFile = MissingFile
    /\ req = [r \in Reqs |-> IdleReq]
    /\ reveOk = [u \in Users |-> 0]
    /\ call = NoCall

\* requests are numbered in the order they arrive
Arrives(r) ==
    /\ req[r].kind = "idle"
    /\ \A p \in Reqs : p < r => req[p].kind # "idle"

\* getUsageRecord(userId) is called: the next external call is the select
\* (without a Supabase client the local read is the next step)
CallGet(q, at) == [q EXCEPT !.at = at, !.pc = "get"]

----------------------------------------------------------------------------
(* updateUsageRecord, lines 394-437 *)

\* the call itself: without a client the local file is updated at once,
\* with a client the first step is `await getUsageRecord(userId)`
\* result: the request and the file after the call's synchronous part
updateUsageRecord(q, file, updater) ==
    IF ~supabase
    THEN LET res == updateLocalUsageRecord(file, q.userId, updater)
         IN  [q |-> AfterUpdate([q EXCEPT !.updater = updater, !.viaLocal = TRUE]),
              file |-> res.file]
    ELSE [q |-> CallGet([q EXCEPT !.updater = updater], "update"), file |-> file]

markGenerationUsage(q, file) == updateUsageRecord(q, file, "inc")

setBillingStatus(q, file, billingStatus) == updateUsageRecord(q, file, billingStatus)

----------------------------------------------------------------------------
(* The store calls in flight *)

\* a store call served by the local file: getOrCreateLocalUsageRecord
LocalGet(r) ==
    LET q == req[r]
        res == getOrCreateLocalUsageRecord(usageFile, q.userId)
    IN  /\ req' = [req EXCEPT ![r] = AfterGet([q EXCEPT !.viaLocal = TRUE], res.record)]
        /\ usageFile' = res.file
        /\ UNCHANGED <<app_usage, reveOk>>

\* getUsageRecord without the catch: a failed select surfaces as a 500
getUsageRecordRaising(r) ==
    /\ req[r].pc = "get"
    /\ LET q == req[r]
           row == app_usage[q.userId]
       IN  IF ~supabase
           THEN LocalGet(r)
           ELSE \/ /\ row # NoRow
                   /\ req' = [req EXCEPT ![r] =
                         AfterGet([q EXCEPT !.viaRemote = TRUE],
                                  mapDbUsageRowToUsageRecord(row))]
                   /\ UNCHANGED <<app_usage, usageFile, reveOk>>
                \/ /\ row = NoRow
                   /\ req' = [req EXCEPT ![r].pc = "insert"]
                   /\ UNCHANGED <<app_usage, usageFile, reveOk>>
                \/ /\ req' = [req EXCEPT ![r] = Respond(q, 500)]
                   /\ UNCHANGED <<app_usage, usageFile, reveOk>>
    /\ UNCHANGED <<call, supabase, lemonWebhookSecret>>

\* getUsageRecord, lines 374-392, with the select of getOrCreateSupabaseUsageRecord
\* (lines 337-351): no client, or the select fails -> the local record;
\* a row -> the row mapped; no row -> the insert follows
getUsageRecord(r) ==
    /\ req[r].pc = "get"
    /\ LET q == req[r]
           row == app_usage[q.userId]
       IN  IF ~supabase
           THEN LocalGet(r)
           ELSE \/ /\ row # NoRow
                   /\ req' = [req EXCEPT ![r] =
                         AfterGet([q EXCEPT !.viaRemote = TRUE],
                                  mapDbUsageRowToUsageRecord(row))]
                   /\ UNCHANGED <<app_usage, usageFile, reveOk>>
                \/ /\ row = NoRow
                   /\ req' = [req EXCEPT ![r].pc = "insert"]
                   /\ UNCHANGED <<app_usage, usageFile, reveOk>>
                \/ LocalGet(r)              \* fetchError: catch, fall back
    /\ UNCHANGED <<call, supabase, lemonWebhookSecret>>

\* the insert of getOrCreateSupabaseUsageRecord, lines 353-371: user_id is the
\* primary key, so the insert succeeds only while the user has no row
insertUsageRow(r) ==
    /\ req[r].pc = "insert"
    /\ LET q == req[r]
       IN  \/ /\ app_usage[q.userId] = NoRow
              /\ app_usage' = [app_usage EXCEPT ![q.userId] = NewRow(q.userId)]
              /\ req' = [req EXCEPT ![r] =
                    AfterGet([q EXCEPT !.viaRemote = TRUE],
                             mapDbUsageRowToUsageRecord(NewRow(q.userId)))]
              /\ UNCHANGED <<usageFile, reveOk>>
           \/ LocalGet(r)                   \* insertError: catch, fall back
    /\ UNCHANGED <<call, supabase, lemonWebhookSecret>>

\* the upsert of updateUsageRecord, lines 404-436: the whole row computed
\* from `current` is written; on an error the local file is updated instead
upsertUsageRow(r) ==
    /\ req[r].pc = "upsert"
    /\ LET q == req[r]
           next == ApplyUpdater(q.updater, q.current)
           res == updateLocalUsageRecord(usageFile, q.userId, q.updater)
       IN  \/ /\ app_usage' = [app_usage EXCEPT ![q.userId] = UpsertRow(q.userId, next)]
              /\ req' = [req EXCEPT ![r] = AfterUpdate([q EXCEPT !.viaRemote = TRUE])]
              /\ UNCHANGED <<usageFile, reveOk>>
           \/ /\ usageFile' = res.file
              /\ req' = [req EXCEPT ![r] = AfterUpdate([q EXCEPT !.viaLocal = TRUE])]
              /\ UNCHANGED <<app_usage, reveOk>>
    /\ UNCHANGED <<call, supabase, lemonWebhookSecret>>

----------------------------------------------------------------------------
(* GET /api/billing/status, lines 725-744 *)

StartStatus(r) ==
    /\ Arrives(r)
    /\ \E userId \in Users \cup {None} :
          LET q == [IdleReq EXCEPT !.kind = "status", !.userId = userId]
          IN  req' = [req EXCEPT ![r] =
                IF userId = None THEN Respond(q, 400) ELSE CallGet(q, "status")]
    /\ UNCHANGED <<call, supabase, app_usage, usageFile, lemonWebhookSecret, reveOk>>

----------------------------------------------------------------------------
(* POST /api/reve/create-remove-bg (lines 839-902), POST /api/reve/enhance (904-985) *)

\* clientUserId: the trimmed string getClientUserId returns, None for null
StartGenerate(r) ==
    /\ Arrives(r)
    /\ \E kind \in {"create", "enhance"}, clientUserId \in Users \cup {None},
          hasInput \in BOOLEAN :
          LET q == [IdleReq EXCEPT !.kind = kind, !.userId = clientUserId,
                                   !.hasInput = hasInput]
          IN  req' = [req EXCEPT ![r] =
                IF clientUserId = None THEN Respond(q, 400) ELSE CallGet(q, "admit")]
    /\ UNCHANGED <<call, supabase, app_usage, usageFile, lemonWebhookSecret, reveOk>>

\* outcomes of createLemonCheckoutUrl (lines 528-608): a URL; ok:false for a
\* missing key, store or variant id, for a non-2xx answer and for an answer
\* without URL; the fetch (or response.json()) rejecting, which nothing in
\* the function catches
CheckoutOutcomes == {"url", "unconfigured", "rejected", "emptyUrl", "networkError"}

\* createLemonCheckoutUrl on the denial path (lines 849-857 / 914-922): the 402
\* carries checkoutUrl or billingMessage; a rejection lands in the handler's catch
CreateCheckout(r) ==
    /\ req[r].pc = "checkout"
    /\ \E outcome \in CheckoutOutcomes :
          req' = [req EXCEPT ![r] =
             IF outcome = "networkError" THEN Respond(req[r], 500)
             ELSE Respond([req[r] EXCEPT !.checkout =
                             IF outcome = "url" THEN "url" ELSE "message"], 402)]
    /\ UNCHANGED <<call, supabase, app_usage, usageFile, lemonWebhookSecret, reveOk>>

\* optimizePromptWithLongcat (lines 610-679): without a key no call is made;
\* every outcome of the call leads on to callReve
OptimizePrompt(r) ==
    /\ req[r].pc = "optimize"
    /\ \E outcome \in {"nokey", "failed", "rewritten"} :
          req' = [req EXCEPT ![r] =
             [req[r] EXCEPT !.pc = "reve",
                            !.optCalls = IF outcome = "nokey" THEN @ ELSE @ + 1]]
    /\ UNCHANGED <<call, supabase, app_usage, usageFile, lemonWebhookSecret, reveOk>>

\* a handler that counts the generation although callReve threw
ReveFailedCounted(q) ==
    [q EXCEPT !.reveResult = "error", !.updater = "inc", !.at = "update", !.pc = "get"]

\* lines 893-901 / 976-984: callReve threw
ReveFailed(q) == Respond([q EXCEPT !.reveResult = "error"], 500)

\* callReve (lines 681-708) and what follows it: on an error the catch
\* answers 500; on success markGenerationUsage(userId) is called
CallReve(r) ==
    /\ req[r].pc = "reve"
    /\ LET q == req[r]
           called == [q EXCEPT !.reveCalls = @ + 1]
           marked == markGenerationUsage([called EXCEPT !.reveResult = "ok"], usageFile)
       IN  \/ /\ req' = [req EXCEPT ![r] = marked.q]
              /\ usageFile' = marked.file
              /\ reveOk' = [reveOk EXCEPT ![q.userId] = @ + 1]
           \/ /\ req' = [req EXCEPT ![r] = ReveFailed(called)]   \* !response.ok
              /\ UNCHANGED <<usageFile, reveOk>>
           \/ /\ req' = [req EXCEPT ![r] = ReveFailed(q)]        \* getReveKey throws
              /\ UNCHANGED <<usageFile, reveOk>>
    /\ UNCHANGED <<call, supabase, app_usage, lemonWebhookSecret>>

----------------------------------------------------------------------------
(* POST /api/billing/lemon/webhook, lines 780-837 *)

\* a payload without event name or user id answered as a malformed request
IgnoredEventRejected(q) == Respond(q, 400)

\* lines 809-812: res.status(200).json({ ok: true, ignored: true })
IgnoredEvent(q) == Respond(q, 200)

\* what req.body is: no Buffer (nobuffer), or the bytes of text that is not
\* JSON (badjson), of JSON null, a number, a string or a boolean (nonobject),
\* of a JSON array (array), of a JSON object (object)
WebhookBodies == {"nobuffer", "badjson", "nonobject", "array", "object"}

\* isObject (lines 458-460): value != null && typeof value === "object",
\* which holds of arrays too
isObject(body) == body \in {"array", "object"}

\* eventName, userId: what readNestedString / extractLemonUserId return
\* of the payload (only an object has them: the paths start at meta and
\* data, which no parsed array has)
StartWebhook(r) ==
    /\ Arrives(r)
    /\ \E body \in WebhookBodies,
          sig \in {"valid", "invalid", "missing"},
          eventName \in EventNames \cup {None},
          userId \in Users \cup {None} :
          /\ body # "object" => (eventName = None /\ userId = None)
          /\ LET q == [IdleReq EXCEPT !.kind = "webhook", !.body = body, !.sig = sig,
                                      !.eventName = eventName]
                 u == [q EXCEPT !.userId = userId]
                 billingStatus == IF eventName \in activationEvents THEN "active" ELSE "free"
                 set == setBillingStatus(u, usageFile, billingStatus)
             IN  IF body = "nobuffer"
                 THEN req' = [req EXCEPT ![r] = Respond(q, 400)] /\ UNCHANGED usageFile
                 ELSE IF ~verifyLemonSignature(lemonWebhookSecret, sig)
                 THEN req' = [req EXCEPT ![r] = Respond(q, 401)] /\ UNCHANGED usageFile
                 ELSE IF body = "badjson" \/ ~isObject(body)
                 THEN req' = [req EXCEPT ![r] = Respond(q, 400)] /\ UNCHANGED usageFile
                 ELSE IF eventName = None \/ userId = None
                 THEN req' = [req EXCEPT ![r] = IgnoredEvent(q)] /\ UNCHANGED usageFile
                 ELSE IF eventName \in activationEvents \cup deactivationEvents
                 THEN req' = [req EXCEPT ![r] = set.q] /\ usageFile' = set.file
                 ELSE req' = [req EXCEPT ![r] = Respond(u, 200)] /\ UNCHANGED usageFile
    /\ UNCHANGED <<call, supabase, app_usage, lemonWebhookSecret, reveOk>>

----------------------------------------------------------------------------

Next ==
    \E r \in Reqs :
        \/ StartStatus(r)
        \/ StartGenerate(r)
        \/ StartWebhook(r)
        \/ getUsageRecord(r)
        \/ insertUsageRow(r)
        \/ upsertUsageRow(r)
        \/ CreateCheckout(r)
        \/ OptimizePrompt(r)
        \/ CallReve(r)

Spec == Init /\ [][Next]_vars

----------------------------------------------------------------------------------------------------------------------------------------
(* Requests issued one at a time by one client: a request arrives only      *)
(* after the one before it was answered.  req[1] is the request being       *)
(* served; req[2] is what is remembered of the one answered before it, and  *)
(* so on.                                                                   *)

\* successful generations after which the client sends no further request
MaxGens == 2

\* the user the client's requests and its webhooks name
SeqUser == "u1"

\* what is remembered of an answered request: what it was and its outcome
Answered(q) ==
    [IdleReq EXCEPT !.kind = q.kind, !.userId = q.userId, !.eventName = q.eventName,
                    !.updater = q.updater, !.reveResult = q.reveResult,
                    !.status = q.status, !.pc = "done"]

\* the request served has been answered: the next one can be sent
NextRequest ==
    /\ req[1].pc = "done"
    /\ reveOk[SeqUser] < MaxGens
    /\ req' = [r \in Reqs |-> IF r = 1 THEN IdleReq ELSE Answered(req[r - 1])]
    /\ UNCHANGED <<call, supabase, app_usage, usageFile, lemonWebhookSecret, reveOk>>

NextSeq ==
    \/ NextRequest
    \/ StartStatus(1) /\ req'[1].userId \in {SeqUser, None}
    \/ StartGenerate(1) /\ req'[1].userId \in {SeqUser, None}
    \/ StartWebhook(1) /\ req'[1].userId \in {SeqUser, None}
    \/ getUsageRecord(1)
    \/ insertUsageRow(1)
    \/ upsertUsageRow(1)
    \/ CreateCheckout(1)
    \/ OptimizePrompt(1)
    \/ CallReve(1)

SpecSeq == Init /\ [][NextSeq]_vars

\* the same client while no billing webhook is delivered: the user's
\* billingStatus stays free
NextFree ==
    \/ NextRequest
    \/ StartStatus(1) /\ req'[1].userId \in {SeqUser, None}
    \/ StartGenerate(1) /\ req'[1].userId \in {SeqUser, None}
    \/ getUsageRecord(1)
    \/ insertUsageRow(1)
    \/ upsertUsageRow(1)
    \/ CreateCheckout(1)
    \/ OptimizePrompt(1)
    \/ CallReve(1)

SpecFree == Init /\ [][NextFree]_vars

----------------------------------------------------------------------------
(* verifyLemonSignature on values, lines 501-526, with getLemonWebhookSecret, *)
(* lines 143-149.  A string is a sequence of characters.                      *)

\* length of the hex digest (64 for SHA-256)
DigestLen == 2

\* the hex digits a digest is written in, and the characters a header may hold
HexDigits == <<"0", "5", "a", "f">>
HeaderChars == {HexDigits[i] : i \in 1..Len(HexDigits)} \cup {"F"}

\* the characters of secrets and bodies, by code
SecretChars == <<" ", "k", "m">>
BodyChars == <<"{", "}">>

RECURSIVE SeqsUpTo(_, _)
\* the strings over `chars` of length at most n
SeqsUpTo(chars, n) ==
    IF n = 0 THEN {<<>>}
    ELSE LET shorter == SeqsUpTo(chars, n - 1)
         IN  shorter \cup {Append(t, c) : t \in shorter, c \in chars}

\* process.env.LEMON_SQUEEZY_WEBHOOK_SECRET: unset, or a string
EnvSecrets ==
    {[set |-> FALSE, value |-> <<>>]}
    \cup {[set |-> TRUE, value |-> v] :
            v \in {<<>>, <<" ">>, <<" ", " ">>, <<"k">>, <<"m">>, <<" ", "k">>}}

RawBodies == {<<>>, <<"{">>, <<"{", "}">>}

\* the signatureHeader argument: undefined, or a string
SignatureHeaders ==
    {[present |-> FALSE, value |-> <<>>]}
    \cup {[present |-> TRUE, value |-> v] : v \in SeqsUpTo(HeaderChars, DigestLen + 1)}

RECURSIVE trimStart(_)
trimStart(str) ==
    IF str # <<>> /\ Head(str) = " " THEN trimStart(Tail(str)) ELSE str

RECURSIVE trimEnd(_)
trimEnd(str) ==
    IF str # <<>> /\ str[Len(str)] = " " THEN trimEnd(SubSeq(str, 1, Len(str) - 1)) ELSE str

trim(str) == trimEnd(trimStart(str))

NoSecret == [null |-> TRUE, value |-> <<>>]

\* getLemonWebhookSecret that takes a blank string for a secret
getLemonWebhookSecretUntrimmed(env) ==
    IF ~env.set \/ env.value = <<>> THEN NoSecret
    ELSE [null |-> FALSE, value |-> env.value]

\* getLemonWebhookSecret: null when the variable is unset, empty or blank,
\* else the string as it is
getLemonWebhookSecret(env) ==
    IF ~env.set \/ env.value = <<>> \/ trim(env.value) = <<>> THEN NoSecret
    ELSE [null |-> FALSE, value |-> env.value]

CodeOf(chars, c) == CHOOSE i \in 1..Len(chars) : chars[i] = c

RECURSIVE Mix(_, _, _)
\* a keyed sum of the character codes of str, kept below Len(HexDigits)^DigestLen
Mix(h, chars, str) ==
    IF str = <<>> THEN h
    ELSE Mix((h * 7 + CodeOf(chars, Head(str)) + 3) % (Len(HexDigits) ^ DigestLen),
             chars, Tail(str))

\* crypto.createHmac("sha256", secret).update(rawBody).digest("hex"): a
\* string of DigestLen hex digits that the secret and the body determine
\* (a keyed checksum stands for SHA-256)
createHmacDigestHex(secret, rawBody) ==
    LET h == Mix(Mix(1, SecretChars, secret), BodyChars, rawBody)
    IN  [i \in 1..DigestLen |->
            HexDigits[((h \div (Len(HexDigits) ^ (i - 1))) % Len(HexDigits)) + 1]]

\* crypto.timingSafeEqual on two buffers of one length
timingSafeEqual(a, b) == \A i \in 1..Len(a) : a[i] = b[i]

\* verifyLemonSignature without the length comparison: the header is
\* compared over the length the two strings share
verifyLemonSignatureOnPrefix(env, rawBody, signatureHeader) ==
    LET secret == getLemonWebhookSecret(env)
        computed == createHmacDigestHex(secret.value, rawBody)
        b == signatureHeader.value
    IN  IF secret.null THEN TRUE
        ELSE IF ~signatureHeader.present \/ b = <<>> THEN FALSE
        ELSE \A i \in 1..(IF Len(b) < Len(computed) THEN Len(b) ELSE Len(computed)) :
                computed[i] = b[i]

\* verifyLemonSignature(rawBody, signatureHeader) under the environment env
verifyLemonSignatureOn(env, rawBody, signatureHeader) ==
    LET secret == getLemonWebhookSecret(env)
        a == createHmacDigestHex(secret.value, rawBody)
        b == signatureHeader.value
    IN  IF secret.null THEN TRUE
        ELSE IF ~signatureHeader.present \/ b = <<>> THEN FALSE
        ELSE IF Len(a) # Len(b) THEN FALSE
        ELSE timingSafeEqual(a, b)

\* the calls of verifyLemonSignature looked at, before they are made
VerifyCalls ==
    {[fn |-> "verifyLemonSignature", env |-> env, rawBody |-> rawBody,
      signatureHeader |-> signatureHeader, done |-> FALSE, result |-> FALSE] :
        env \in EnvSecrets, rawBody \in RawBodies, signatureHeader \in SignatureHeaders}

InitVerify ==
    /\ call \in VerifyCalls
    /\ supabase = FALSE
    /\ lemonWebhookSecret = FALSE
    /\ app_usage = [u \in Users |-> NoRow]
    /\ usageFile = MissingFile
    /\ req = [r \in Reqs |-> IdleReq]
    /\ reveOk = [u \in Users |-> 0]

ApplyVerify ==
    /\ call.fn = "verifyLemonSignature"
    /\ ~call.done
    /\ call' = [call EXCEPT
          !.done = TRUE,
          !.result = verifyLemonSignatureOn(call.env, call.rawBody, call.signatureHeader)]
    /\ UNCHANGED <<supabase, app_usage, usageFile, lemonWebhookSecret, req, reveOk>>

NextVerify == ApplyVerify

SpecVerify == InitVerify /\ [][NextVerify]_vars

----------------------------------------------------------------------------
(* updateUsageRecord followed by getUsageRecord, one backend serving both    *)
(* calls and no other call in between: each call is one step.               *)

\* the largest generatedCount a stored record starts with
MaxStored == 2

\* provider ids a stored record may carry
CustomerIds == {"cus_1"}
SubscriptionIds == {"sub_1"}

\* the records usage.json may hold for a user, and the rows of app_usage
LocalRecords(userId) ==
    {[userId |-> userId, generatedCount |-> n, billingStatus |-> b,
      lemonCustomerId |-> c, lemonSubscriptionId |-> sub] :
        n \in 0..MaxStored, b \in {"free", "active"},
        c \in CustomerIds \cup {Undefined}, sub \in SubscriptionIds \cup {Undefined}}

RemoteRows(userId) ==
    {[user_id |-> userId, generated_count |-> n, billing_status |-> b,
      lemon_customer_id |-> c, lemon_subscription_id |-> sub] :
        n \in 0..MaxStored, b \in {"free", "active"},
        c \in CustomerIds \cup {Null}, sub \in SubscriptionIds \cup {Null}}

RoundTripCalls ==
    {[fn |-> "roundTrip", backend |-> backend, userId |-> userId, updater |-> updater,
      step |-> "update", updated |-> NoRecord, fetched |-> NoRecord] :
        backend \in {"local", "remote"}, userId \in Users,
        updater \in {"inc", "active", "free"}}

\* the user of the call has any record or none in the backend that serves
InitRoundTrip ==
    /\ call \in RoundTripCalls
    /\ supabase = (call.backend = "remote")
    /\ lemonWebhookSecret = FALSE
    /\ app_usage \in
          {[u \in Users |-> IF u = call.userId /\ supabase THEN row ELSE NoRow] :
              row \in RemoteRows(call.userId) \cup {NoRow}}
    /\ usageFile \in
          {MissingFile} \cup
          {JsonFile([u \in Users |-> IF u = call.userId /\ ~supabase THEN record ELSE NoRecord]) :
              record \in LocalRecords(call.userId) \cup {NoRecord}}
    /\ req = [r \in Reqs |-> IdleReq]
    /\ reveOk = [u \in Users |-> 0]

\* updateUsageRecord(userId, updater), every Supabase call succeeding:
\* select (insert when there is no row), upsert, the upserted row returned
RoundTripUpdate ==
    /\ call.fn = "roundTrip" /\ call.step = "update"
    /\ IF ~supabase
       THEN LET res == updateLocalUsageRecord(usageFile, call.userId, call.updater)
            IN  /\ usageFile' = res.file
                /\ call' = [call EXCEPT !.updated = res.record, !.step = "get"]
                /\ UNCHANGED app_usage
       ELSE LET existing == app_usage[call.userId]
                current == mapDbUsageRowToUsageRecord(
                              IF existing = NoRow THEN NewRow(call.userId) ELSE existing)
                updated == UpsertRow(call.userId, ApplyUpdater(call.updater, current))
            IN  /\ app_usage' = [app_usage EXCEPT ![call.userId] = updated]
                /\ call' = [call EXCEPT !.updated = mapDbUsageRowToUsageRecord(updated),
                                        !.step = "get"]
                /\ UNCHANGED usageFile
    /\ UNCHANGED <<supabase, lemonWebhookSecret, req, reveOk>>

\* getUsageRecord(userId), every Supabase call succeeding
RoundTripGet ==
    /\ call.fn = "roundTrip" /\ call.step = "get"
    /\ IF ~supabase
       THEN LET res == getOrCreateLocalUsageRecord(usageFile, call.userId)
            IN  /\ usageFile' = res.file
                /\ call' = [call EXCEPT !.fetched = res.record, !.step = "done"]
                /\ UNCHANGED app_usage
       ELSE LET existing == app_usage[call.userId]
                row == IF existing = NoRow THEN NewRow(call.userId) ELSE existing
            IN  /\ app_usage' = [app_usage EXCEPT ![call.userId] = row]
                /\ call' = [call EXCEPT !.fetched = mapDbUsageRowToUsageRecord(row),
                                        !.step = "done"]
                /\ UNCHANGED usageFile
    /\ UNCHANGED <<supabase, lemonWebhookSecret, req, reveOk>>

NextRoundTrip == RoundTripUpdate \/ RoundTripGet

SpecRoundTrip == InitRoundTrip /\ [][NextRoundTrip]_vars

----------------------------------------------------------------------------
(* Webhook events of one user delivered one after another *)

\* an answered webhook that set out to change the billing status
BillingEvent(q) ==
    /\ q.kind = "webhook" /\ q.pc = "done" /\ q.status = 200 /\ q.userId # None
    /\ q.eventName \in activationEvents \cup deactivationEvents

\* the webhook served has been answered: the next one can be delivered;
\* req[2] remembers the last answered activation or deactivation event
NextDelivery ==
    /\ req[1].pc = "done"
    /\ req' = [r \in Reqs |->
                 IF r = 1 THEN IdleReq
                 ELSE IF BillingEvent(req[1]) THEN Answered(req[1]) ELSE req[r]]
    /\ UNCHANGED <<call, supabase, app_usage, usageFile, lemonWebhookSecret, reveOk>>

NextHooks ==
    \/ NextDelivery
    \/ StartWebhook(1) /\ req'[1].userId \in {SeqUser, None}
    \/ getUsageRecord(1)
    \/ insertUsageRow(1)
    \/ upsertUsageRow(1)

SpecHooks == Init /\ [][NextHooks]_vars

----------------------------------------------------------------------------
(* Every route, with store calls that raise; each pending call is answered *)

\* POST /api/billing/create-checkout, lines 746-778
StartCreateCheckout(r) ==
    /\ Arrives(r)
    /\ \E clientUserId \in Users \cup {None} :
          LET q == [IdleReq EXCEPT !.kind = "checkout", !.userId = clientUserId]
          IN  req' = [req EXCEPT ![r] =
                IF clientUserId = None THEN Respond(q, 400)
                ELSE [q EXCEPT !.pc = "createCheckout"]]
    /\ UNCHANGED <<call, supabase, app_usage, usageFile, lemonWebhookSecret, reveOk>>

\* lines 760-777: 200 with the URL, 503 for an ok:false result, 500 from the catch
CreateCheckoutRoute(r) ==
    /\ req[r].pc = "createCheckout"
    /\ \E outcome \in CheckoutOutcomes :
          req' = [req EXCEPT ![r] =
             IF outcome = "networkError" THEN Respond(req[r], 500)
             ELSE IF outcome = "url" THEN Respond([req[r] EXCEPT !.checkout = "url"], 200)
             ELSE Respond([req[r] EXCEPT !.checkout = "message"], 503)]
    /\ UNCHANGED <<call, supabase, app_usage, usageFile, lemonWebhookSecret, reveOk>>

\* the promise of an async handler rejects and the handler has no catch:
\* nothing in server.ts answers the request
Unhandled(q) == [q EXCEPT !.pc = "unhandled"]

\* a store call raises into the handler (the local file cannot be read or
\* written: fs.readFileSync / writeFileSync / mkdirSync throw, and neither
\* getUsageRecord's nor updateUsageRecord's catch, which call the local
\* functions, catches that). The status, create and enhance handlers answer
\* 500 from their catch; the webhook handler (lines 780-837) has none, and
\* whether the rejected promise is answered depends on the Express release:
\* Express 5 hands it to its error handler (500), Express 4 drops it
StoreRaised(q) ==
    IF q.kind = "webhook" THEN {Respond(q, 500), Unhandled(q)} ELSE {Respond(q, 500)}

StoreRaises(r) ==
    /\ req[r].pc \in {"get", "insert", "upsert"}
    /\ \E q \in StoreRaised(req[r]) : req' = [req EXCEPT ![r] = q]
    /\ UNCHANGED <<call, supabase, app_usage, usageFile, lemonWebhookSecret, reveOk>>

\* the external call request r waits for returns or fails
Returns(r) ==
    \/ getUsageRecord(r)
    \/ insertUsageRow(r)
    \/ upsertUsageRow(r)
    \/ StoreRaises(r)
    \/ CreateCheckout(r)
    \/ CreateCheckoutRoute(r)
    \/ OptimizePrompt(r)
    \/ CallReve(r)

NextLive ==
    \E r \in Reqs :
        \/ StartStatus(r)
        \/ StartCreateCheckout(r)
        \/ StartGenerate(r)
        \/ StartWebhook(r)
        \/ Returns(r)

\* every external call eventually returns or fails
SpecLive == Init /\ [][NextLive]_vars /\ \A r \in Reqs : WF_vars(Returns(r))

----------------------------------------------------------------------------
(* The local-file backend on a usage.json that the server did not write *)

LocalOps == {"get", "inc", "active", "free"}

\* usage.json as found on disk: missing, corrupt, or a store with any record
\* or none for the user of the call
FoundFiles(userId) ==
    {MissingFile} \cup {CorruptFile(form) : form \in CorruptForms}
    \cup {JsonFile([u \in Users |-> IF u = userId THEN record ELSE NoRecord]) :
            record \in LocalRecords(userId) \cup {NoRecord}}

\* getOrCreateLocalUsageRecord or updateLocalUsageRecord, by the name of the call
applyLocalOp(op, file, userId) ==
    IF op = "get" THEN getOrCreateLocalUsageRecord(file, userId)
    ELSE updateLocalUsageRecord(file, userId, op)

InitLocalFile ==
    /\ \E userId \in Users, op \in LocalOps :
         \E file \in FoundFiles(userId) :
            /\ call = [fn |-> "local", userId |-> userId, op |-> op, found |-> file,
                       step |-> "op", returned |-> NoRecord, written |-> file,
                       reread |-> NoRecord]
            /\ usageFile = file
    /\ supabase = FALSE
    /\ lemonWebhookSecret = FALSE
    /\ app_usage = [u \in Users |-> NoRow]
    /\ req = [r \in Reqs |-> IdleReq]
    /\ reveOk = [u \in Users |-> 0]

\* the get or update of the call on the file found
LocalOp ==
    /\ call.fn = "local" /\ call.step = "op"
    /\ LET res == applyLocalOp(call.op, usageFile, call.userId)
       IN  /\ usageFile' = res.file
           /\ call' = [call EXCEPT !.returned = res.record, !.written = res.file,
                                   !.step = "reread"]
    /\ UNCHANGED <<supabase, app_usage, lemonWebhookSecret, req, reveOk>>

\* the next getUsageRecord of the same user, served by the file
LocalReread ==
    /\ call.fn = "local" /\ call.step = "reread"
    /\ LET res == getOrCreateLocalUsageRecord(usageFile, call.userId)
       IN  /\ usageFile' = res.file
           /\ call' = [call EXCEPT !.reread = res.record, !.step = "done"]
    /\ UNCHANGED <<supabase, app_usage, lemonWebhookSecret, req, reveOk>>

NextLocalFile == LocalOp \/ LocalReread

SpecLocalFile == InitLocalFile /\ [][NextLocalFile]_vars

----------------------------------------------------------------------------
(* Prompt optimization of an admitted request, lines 219-222, 610-679, 869-880 *)

\* the length clampPrompt cuts a prompt to: 2560 in the source, scaled down
PromptLimit == 2

PromptChars == {" ", "a"}

\* clampPrompt: value.trim().slice(0, limit)
clampPrompt(value) ==
    LET trimmed == trim(value)
    IN  SubSeq(trimmed, 1, IF Len(trimmed) < PromptLimit THEN Len(trimmed) ELSE PromptLimit)

\* `prompt` of the handler: trimmed and not empty (lines 860-865, 946-949)
Prompts == {p \in SeqsUpTo(PromptChars, PromptLimit + 2) : p # <<>> /\ trim(p) = p}

\* json.choices?.[0]?.message?.content of a parsed answer: absent or a string
Contents ==
    {[present |-> FALSE, value |-> <<>>]}
    \cup {[present |-> TRUE, value |-> c] : c \in SeqsUpTo(PromptChars, PromptLimit + 1)}

\* what happens to the optimizer call: no LONGCAT_API_KEY, fetch rejects,
\* a non-2xx answer, a body response.json() rejects, a parsed answer
OptimizerOutcomes ==
    {[kind |-> k, content |-> [present |-> FALSE, value |-> <<>>]] :
        k \in {"nokey", "networkError", "non2xx", "unparsable"}}
    \cup {[kind |-> "answer", content |-> c] : c \in Contents}

\* the answer carries no prompt: content absent or the empty string
EmptyAnswer(outcome) ==
    outcome.kind = "answer" /\ (~outcome.content.present \/ outcome.content.value = <<>>)

OriginalResult(originalPrompt) ==
    [prompt |-> originalPrompt, optimized |-> FALSE, source |-> "original"]

optimizePromptWithLongcat(prompt, outcome) ==
    LET originalPrompt == clampPrompt(prompt)
    IN  IF outcome.kind = "nokey" \/ originalPrompt = <<>>
        THEN OriginalResult(originalPrompt)
        ELSE IF outcome.kind \in {"networkError", "non2xx", "unparsable"}
        THEN OriginalResult(originalPrompt)
        ELSE LET content == outcome.content
                 optimized == clampPrompt(IF content.present /\ content.value # <<>>
                                          THEN content.value ELSE originalPrompt)
             IN  [prompt |-> IF optimized # <<>> THEN optimized ELSE originalPrompt,
                  optimized |-> optimized # <<>> /\ optimized # originalPrompt,
                  source |-> "longcat"]

NoPromptResult == [prompt |-> <<>>, optimized |-> FALSE, source |-> None]

\* an admitted request at `await optimizePromptWithLongcat(...)`
InitOptimize ==
    /\ call \in {[fn |-> "optimize", prompt |-> prompt, outcome |-> outcome,
                  step |-> "optimize", promptResult |-> NoPromptResult,
                  sent |-> [present |-> FALSE, value |-> <<>>]] :
                    prompt \in Prompts, outcome \in OptimizerOutcomes}
    /\ supabase = FALSE
    /\ lemonWebhookSecret = FALSE
    /\ app_usage = [u \in Users |-> NoRow]
    /\ usageFile = MissingFile
    /\ req = [r \in Reqs |-> IdleReq]
    /\ reveOk = [u \in Users |-> 0]

\* lines 869-873 / 951-955
OptimizeCall ==
    /\ call.fn = "optimize" /\ call.step = "optimize"
    /\ call' = [call EXCEPT !.promptResult = optimizePromptWithLongcat(call.prompt, call.outcome),
                            !.step = "reve"]
    /\ UNCHANGED <<supabase, app_usage, usageFile, lemonWebhookSecret, req, reveOk>>

\* lines 875-880 / 957-963: callReve with promptResult.prompt
ReveCall ==
    /\ call.fn = "optimize" /\ call.step = "reve"
    /\ call' = [call EXCEPT !.sent = [present |-> TRUE, value |-> call.promptResult.prompt],
                            !.step = "done"]
    /\ UNCHANGED <<supabase, app_usage, usageFile, lemonWebhookSecret, req, reveOk>>

NextOptimize == OptimizeCall \/ ReveCall

SpecOptimize == InitOptimize /\ [][NextOptimize]_vars

----------------------------------------------------------------------------
(* The upscale factor of an enhance request, lines 211-217, 935-944 *)

\* numbers a request may give: from -MaxFactor to MaxFactor
MaxFactor == 8

\* the longest string and the longest array given
MaxFactorLen == 2

NumeralChars == {" ", "-", "0", "2", "3", "4", "x"}

Digits == {"0", "2", "3", "4"}

DigitValue(c) == CASE c = "0" -> 0 [] c = "2" -> 2 [] c = "3" -> 3 [] c = "4" -> 4

\* a JavaScript number: NaN or an integer
NaN == [nan |-> TRUE, value |-> 0]
Num(n) == [nan |-> FALSE, value |-> n]

RECURSIVE DecimalValue(_, _)
\* the value of a string of digits, acc being the value of the digits read
DecimalValue(acc, str) ==
    IF str = <<>> THEN acc ELSE DecimalValue(acc * 10 + DigitValue(Head(str)), Tail(str))

AllDigits(str) == str # <<>> /\ \A i \in 1..Len(str) : str[i] \in Digits

\* Number(string): white space trimmed; the empty string is 0; a numeral,
\* with or without sign, is its value; everything else is NaN
StringToNumber(str) ==
    LET t == trim(str)
    IN  IF t = <<>> THEN Num(0)
        ELSE IF AllDigits(t) THEN Num(DecimalValue(0, t))
        ELSE IF Head(t) = "-" /\ AllDigits(Tail(t)) THEN Num(0 - DecimalValue(0, Tail(t)))
        ELSE NaN

\* values of req.body.upscaleFactor after express.json()
ScalarFactors ==
    {[type |-> "number", num |-> n] : n \in (0 - MaxFactor)..MaxFactor}
    \cup {[type |-> "string", str |-> t] : t \in SeqsUpTo(NumeralChars, MaxFactorLen)}

FactorValues ==
    {[type |-> t] : t \in {"undefined", "null", "true", "false", "object"}}
    \cup ScalarFactors
    \cup {[type |-> "array", items |-> <<>>]}
    \cup {[type |-> "array", items |-> <<e>>] : e \in ScalarFactors}
    \cup {[type |-> "array", items |-> <<[type |-> "number", num |-> m],
                                         [type |-> "number", num |-> n]>>] :
            m, n \in {2, 3, 4}}

\* Number(value) of a number or a string
ScalarToNumber(value) ==
    IF value.type = "number" THEN Num(value.num) ELSE StringToNumber(value.str)

\* Number(value): an array is converted by way of its elements joined with
\* commas, an object by way of "[object Object]"
ToNumber(value) ==
    CASE value.type = "undefined" -> NaN
      [] value.type = "null" -> Num(0)
      [] value.type = "true" -> Num(1)
      [] value.type = "false" -> Num(0)
      [] value.type = "object" -> NaN
      [] value.type \in {"number", "string"} -> ScalarToNumber(value)
      [] value.type = "array" ->
            IF value.items = <<>> THEN Num(0)
            ELSE IF Len(value.items) = 1 THEN ScalarToNumber(value.items[1])
            ELSE NaN

\* sanitizeUpscaleFactor that lets every number from 2 up through
sanitizeUpscaleFactorUnbounded(value) ==
    LET numeric == ToNumber(value)
    IN  IF ~numeric.nan /\ numeric.value >= 2 THEN numeric.value ELSE 2

sanitizeUpscaleFactor(value) ==
    LET numeric == ToNumber(value)
    IN  IF ~numeric.nan /\ (numeric.value = 3 \/ numeric.value = 4)
        THEN numeric.value
        ELSE 2

NoPostprocessing == [process |-> None, upscale_factor |-> 0]

\* an enhance request that reached line 935
InitUpscale ==
    /\ call \in {[fn |-> "upscale", operation |-> operation, upscaleFactor |-> value,
                  step |-> "sanitize", postprocessing |-> NoPostprocessing] :
                    operation \in {"upscale", "remove_background", None},
                    value \in FactorValues}
    /\ supabase = FALSE
    /\ lemonWebhookSecret = FALSE
    /\ app_usage = [u \in Users |-> NoRow]
    /\ usageFile = MissingFile
    /\ req = [r \in Reqs |-> IdleReq]
    /\ reveOk = [u \in Users |-> 0]

\* lines 935-944: the postprocessing entry sent to the provider
\* (upscale_factor 0 stands for an entry without the member)
BuildPostprocessing ==
    /\ call.fn = "upscale" /\ call.step = "sanitize"
    /\ LET operation == IF call.operation = "remove_background"
                        THEN "remove_background" ELSE "upscale"
           upscaleFactor == sanitizeUpscaleFactor(call.upscaleFactor)
       IN  call' = [call EXCEPT
                      !.postprocessing =
                          IF operation = "remove_background"
                          THEN [process |-> "remove_background", upscale_factor |-> 0]
                          ELSE [process |-> "upscale", upscale_factor |-> upscaleFactor],
                      !.step = "done"]
    /\ UNCHANGED <<supabase, app_usage, usageFile, lemonWebhookSecret, req, reveOk>>

NextUpscale == BuildPostprocessing

SpecUpscale == InitUpscale /\ [][NextUpscale]_vars

----------------------------------------------------------------------------
(* The user id of a webhook payload, lines 462-499 *)

\* what a path of the payload leads to: nothing (a part of the path is
\* missing or no object), a value that is no string, or a string
Nothing == [holds |-> "nothing", value |-> ""]
NoString == [holds |-> "other", value |-> ""]
String(str) == [holds |-> "string", value |-> str]

UserIdStrings == {"", "u1", "u2"}

Located == {Nothing, NoString} \cup {String(str) : str \in UserIdStrings}

\* the three places of the user id in a payload
Payloads ==
    [metaCustom : Located,     \* meta.custom_data.user_id
     dataCustom : Located,     \* data.attributes.custom_data.user_id
     direct : Located]         \* data.attributes.user_id

NullString == [null |-> TRUE, value |-> ""]

\* readNestedString(payload, path), given what the path leads to
readNestedString(located) ==
    IF located.holds = "string" THEN [null |-> FALSE, value |-> located.value]
    ELSE NullString

\* if (value): neither null nor the empty string
Truthy(string) == ~string.null /\ string.value # ""

\* extractLemonUserId that looks at data.attributes.custom_data first
extractLemonUserIdDataFirst(payload) ==
    LET fromMetaCustom == readNestedString(payload.metaCustom)
        fromDataCustom == readNestedString(payload.dataCustom)
        direct == readNestedString(payload.direct)
    IN  IF Truthy(fromDataCustom) THEN fromDataCustom
        ELSE IF Truthy(fromMetaCustom) THEN fromMetaCustom
        ELSE direct

extractLemonUserId(payload) ==
    LET fromMetaCustom == readNestedString(payload.metaCustom)
        fromDataCustom == readNestedString(payload.dataCustom)
        direct == readNestedString(payload.direct)
    IN  IF Truthy(fromMetaCustom) THEN fromMetaCustom
        ELSE IF Truthy(fromDataCustom) THEN fromDataCustom
        ELSE direct

\* a verified webhook with an object for payload, at line 807
InitExtract ==
    /\ call \in {[fn |-> "extract", payload |-> payload, step |-> "extract",
                  userId |-> NullString, ignored |-> FALSE] : payload \in Payloads}
    /\ supabase = FALSE
    /\ lemonWebhookSecret = FALSE
    /\ app_usage = [u \in Users |-> NoRow]
    /\ usageFile = MissingFile
    /\ req = [r \in Reqs |-> IdleReq]
    /\ reveOk = [u \in Users |-> 0]

\* lines 807-812: the user id extracted, and the payload ignored without one
ExtractUserId ==
    /\ call.fn = "extract" /\ call.step = "extract"
    /\ LET userId == extractLemonUserId(call.payload)
       IN  call' = [call EXCEPT !.userId = userId, !.ignored = ~Truthy(userId),
                                !.step = "done"]
    /\ UNCHANGED <<supabase, app_usage, usageFile, lemonWebhookSecret, req, reveOk>>

NextExtract == ExtractUserId

SpecExtract == InitExtract /\ [][NextExtract]_vars

----------------------------------------------------------------------------
(* The App component: its React state and what it renders *)

\* the state after the first render: every useState at its initial value
InitialApp ==
    [fn |-> "app",
     hasPrompt |-> FALSE,             \* prompt.trim() is not empty
     selectedFile |-> FALSE,          \* selectedFile is not null
     enhanceOperation |-> "upscale",
     upscaleFactor |-> 2,
     loading |-> FALSE,
     checkoutLoading |-> FALSE,
     error |-> FALSE,                 \* error is not null
     result |-> None,                 \* none | created | enhanced
     usage |-> None,                  \* none | canGenerate | exhausted
     pending |-> None]                \* the request in flight: none | create | enhance

InitApp ==
    /\ call = InitialApp
    /\ supabase = FALSE
    /\ lemonWebhookSecret = FALSE
    /\ app_usage = [u \in Users |-> NoRow]
    /\ usageFile = MissingFile
    /\ req = [r \in Reqs |-> IdleReq]
    /\ reveOk = [u \in Users |-> 0]

AppUnchanged == UNCHANGED <<supabase, app_usage, usageFile, lemonWebhookSecret, req, reveOk>>

\* useEffect, loadUsage: the status request succeeded
LoadUsage ==
    /\ call.fn = "app" /\ call.usage = None /\ call.pending = None /\ call.result = None
    /\ \E usage \in {"canGenerate", "exhausted"} : call' = [call EXCEPT !.usage = usage]
    /\ AppUnchanged

\* the prompt textarea and the file input: onChange
SetPrompt ==
    /\ call.fn = "app"
    /\ \E hasPrompt \in BOOLEAN :
          call' = [call EXCEPT !.hasPrompt = hasPrompt, !.error = FALSE]
    /\ AppUnchanged

SetSelectedFile ==
    /\ call.fn = "app"
    /\ \E selectedFile \in BOOLEAN :
          call' = [call EXCEPT !.selectedFile = selectedFile, !.error = FALSE]
    /\ AppUnchanged

SetEnhanceOperation ==
    /\ call.fn = "app"
    /\ \E operation \in {"upscale", "remove_background"} :
          call' = [call EXCEPT !.enhanceOperation = operation]
    /\ AppUnchanged

SetUpscaleFactor ==
    /\ call.fn = "app" /\ call.enhanceOperation = "upscale"
    /\ \E factor \in {2, 3, 4} : call' = [call EXCEPT !.upscaleFactor = factor]
    /\ AppUnchanged

\* createWithPrompt up to its await
createWithPrompt ==
    /\ call.fn = "app" /\ ~call.loading
    /\ call' = IF ~call.hasPrompt THEN [call EXCEPT !.error = TRUE]
               ELSE [call EXCEPT !.loading = TRUE, !.error = FALSE, !.pending = "create"]
    /\ AppUnchanged

\* enhanceUploadedImage up to its await
enhanceUploadedImage ==
    /\ call.fn = "app" /\ ~call.loading
    /\ call' = IF ~call.selectedFile THEN [call EXCEPT !.error = TRUE]
               ELSE [call EXCEPT !.loading = TRUE, !.error = FALSE, !.pending = "enhance"]
    /\ AppUnchanged

\* the request of createWithPrompt / enhanceUploadedImage returns: a result
\* with its usage, an ApiError with or without usage, another error
RequestReturns ==
    /\ call.fn = "app" /\ call.pending # None
    /\ \/ \E usage \in {None, "canGenerate", "exhausted"} :
             call' = [call EXCEPT !.result = IF call.pending = "create" THEN "created"
                                             ELSE "enhanced",
                                  !.usage = usage, !.loading = FALSE, !.pending = None]
       \/ \E usage \in {call.usage, "canGenerate", "exhausted"} :
             call' = [call EXCEPT !.error = TRUE, !.usage = usage,
                                  !.loading = FALSE, !.pending = None]
    /\ AppUnchanged

\* openCheckout up to its await, and its end
openCheckout ==
    /\ call.fn = "app" /\ call.usage = "exhausted" /\ ~call.checkoutLoading
    /\ call' = [call EXCEPT !.checkoutLoading = TRUE]
    /\ AppUnchanged

CheckoutReturns ==
    /\ call.fn = "app" /\ call.checkoutLoading
    /\ \E failed \in BOOLEAN :
          call' = [call EXCEPT !.checkoutLoading = FALSE,
                               !.error = IF failed THEN TRUE ELSE @]
    /\ AppUnchanged

NextApp ==
    \/ LoadUsage
    \/ SetPrompt
    \/ SetSelectedFile
    \/ SetEnhanceOperation
    \/ SetUpscaleFactor
    \/ createWithPrompt
    \/ enhanceUploadedImage
    \/ RequestReturns
    \/ openCheckout
    \/ CheckoutReturns

SpecApp == InitApp /\ [][NextApp]_vars

\* the headings the component renders in <Text variant="bold"> with fixed text
RenderedTexts(app) ==
    {"Creator Super Tool", "Create (Auto Remove BG)"}
    \cup (IF app.usage = "exhausted" THEN {"Upgrade required"} ELSE {})

\* the accessible names of the buttons rendered: the text each one encloses
RenderedButtons(app) ==
    {"Create image", "Enhance + Upscale", "Remove Background", "Run BG / Enhance"}
    \cup (IF app.enhanceOperation = "upscale" THEN {"2x", "3x", "4x"} ELSE {})
    \cup (IF app.usage = "exhausted" THEN {"Upgrade with Lemon Squeezy"} ELSE {})
    \cup (IF app.result # None THEN {"Add to design"} ELSE {})

----------------------------------------------------------------------------
(* The client user identifier in window.localStorage, part_000 lines 111-125 *)

\* the longest string found in local storage, and the calls made
MaxIdLen == 3
MaxCalls == 3

IdChars == {" ", "a", "b"}

\* localStorage.getItem(key): null or a string
NoItem == [null |-> TRUE, value |-> <<>>]
Item(str) == [null |-> FALSE, value |-> str]
StoredItems == {NoItem} \cup {Item(str) : str \in SeqsUpTo(IdChars, MaxIdLen)}

\* crypto.randomUUID() or `user-${Date.now()}-${...}`: some string that is
\* not blank
GeneratedIds == {<<"a", "a">>, <<"b", "b">>}

\* getOrCreateClientUserId that generates and stores an identifier on every call
getOrCreateClientUserIdFresh(existing, generated) ==
    [returned |-> generated, storage |-> Item(generated), wrote |-> TRUE]

\* result: the identifier returned, the item left in local storage, and
\* whether setItem was called
getOrCreateClientUserId(existing, generated) ==
    IF ~existing.null /\ existing.value # <<>> /\ trim(existing.value) # <<>>
    THEN [returned |-> existing.value, storage |-> existing, wrote |-> FALSE]
    ELSE [returned |-> generated, storage |-> Item(generated), wrote |-> TRUE]

\* a browser with anything, or nothing, under the key
InitClientId ==
    /\ call \in {[fn |-> "clientId", found |-> item, storage |-> item, calls |-> 0,
                  returned |-> NoItem, firstReturned |-> NoItem, writes |-> 0] :
                    item \in StoredItems}
    /\ supabase = FALSE
    /\ lemonWebhookSecret = FALSE
    /\ app_usage = [u \in Users |-> NoRow]
    /\ usageFile = MissingFile
    /\ req = [r \in Reqs |-> IdleReq]
    /\ reveOk = [u \in Users |-> 0]

\* the App is mounted: useMemo(() => getOrCreateClientUserId(), [])
CallGetOrCreateClientUserId ==
    /\ call.fn = "clientId" /\ call.calls < MaxCalls
    /\ \E generated \in GeneratedIds :
          LET res == getOrCreateClientUserId(call.storage, generated)
          IN  call' = [call EXCEPT
                         !.storage = res.storage,
                         !.calls = @ + 1,
                         !.returned = Item(res.returned),
                         !.firstReturned = IF call.calls = 0 THEN Item(res.returned) ELSE @,
                         !.writes = IF res.wrote THEN @ + 1 ELSE @]
    /\ UNCHANGED <<supabase, app_usage, usageFile, lemonWebhookSecret, req, reveOk>>

NextClientId == CallGetOrCreateClientUserId

SpecClientId == InitClientId /\ [][NextClientId]_vars

----------------------------------------------------------------------------
(* Vocabulary of the properties *)

Generation(r) == req[r].kind \in {"create", "enhance"}

Finished(r) == req[r].pc = "done"

\* no request of user u is in flight
Quiescent(u) == \A r \in Reqs : req[r].userId = u => Finished(r)

\* no webhook has set out to change the billing status of user u
NoBillingEvent(u) ==
    \A r \in Reqs : ~(req[r].kind = "webhook" /\ req[r].userId = u /\ req[r].updater # None)

\* r is the only request that names its user
Alone(r) == \A p \in Reqs \ {r} : req[p].userId # req[r].userId

RemoteCount(u) == IF app_usage[u] = NoRow THEN 0 ELSE app_usage[u].generated_count
LocalCount(u) == IF usageFile.users[u] = NoRecord THEN 0 ELSE usageFile.users[u].generatedCount
RemoteBilling(u) == IF app_usage[u] = NoRow THEN "free" ELSE app_usage[u].billing_status
LocalBilling(u) ==
    IF usageFile.users[u] = NoRecord THEN "free" ELSE usageFile.users[u].billingStatus

\* the usage views the handlers hold or have answered with
Views == ({req[r].usage : r \in Reqs} \cup {req[r].usageAfter : r \in Reqs}) \ {NoView}

\* the records the two backends hold
StoredRecords ==
    ({usageFile.users[u] : u \in Users} \ {NoRecord})
    \cup {mapDbUsageRowToUsageRecord(app_usage[u]) : u \in {x \in Users : app_usage[x] # NoRow}}

\* the generatedCount values getUsageRecord has returned to request q so far
ReadCounts(q) ==
    (IF q.usage = NoView THEN {} ELSE {q.usage.generatedCount})
    \cup (IF q.current = NoRecord THEN {} ELSE {q.current.generatedCount})
    \cup (IF q.usageAfter = NoView THEN {} ELSE {q.usageAfter.generatedCount})

----------------------------------------------------------------------------
(* C1 - C10 *)

\* C1: for a user whose billingStatus stays free, the image-generation calls
\* the provider completes never exceed FREE_IMAGE_LIMIT, whatever the
\* interleaving of that user's create and enhance requests.
C1_NoDoubleGrant ==
    \A u \in Users :
        (NoBillingEvent(u) /\ RemoteBilling(u) = "free" /\ LocalBilling(u) = "free")
            => reveOk[u] <= FREE_IMAGE_LIMIT

\* C2: a create or enhance request whose admission check gave canGenerate =
\* FALSE never calls the image-generation provider nor the prompt optimizer:
\* it only asks for a checkout URL and answers, and a 402 is only ever the
\* answer of a request that made no such call.
C2_AdmissionBeforeSpend ==
    \A r \in Reqs :
        /\ (Generation(r) /\ req[r].usage # NoView /\ ~req[r].usage.canGenerate)
              => /\ req[r].reveCalls = 0
                 /\ req[r].optCalls = 0
                 /\ req[r].pc \in {"checkout", "done"}
                 /\ req[r].status \in {0, 402, 500}
        /\ req[r].status = 402
              => /\ req[r].reveCalls = 0
                 /\ req[r].optCalls = 0
                 /\ ~req[r].usage.canGenerate

C2_Witness ==
    \E r \in Reqs : Generation(r) /\ req[r].status = 402 /\ req[r].usage.generatedCount >= 1

\* C3: when the image-generation call of an admitted request fails, that step
\* answers 500 and leaves both backends as they were; the request never
\* calls markGenerationUsage and never reads the usage again; and no step of
\* a create or enhance request whose provider call has not succeeded changes
\* a stored generatedCount.
C3_ProviderFailureLeavesUsage ==
    [][\A r \in Reqs :
          /\ (req'[r] # req[r] /\ req'[r].kind \in {"create", "enhance"}
                  /\ req'[r].reveResult # "ok")
                => \A u \in Users : /\ RemoteCount(u)' = RemoteCount(u)
                                    /\ LocalCount(u)' = LocalCount(u)
          /\ (req[r].pc = "reve" /\ req'[r].reveResult = "error")
                => /\ app_usage' = app_usage
                   /\ usageFile' = usageFile
                   /\ reveOk' = reveOk
          /\ req'[r].reveResult = "error"
                => /\ req'[r].status = 500
                   /\ req'[r].pc = "done"
                   /\ req'[r].updater = None
                   /\ req'[r].usageAfter = NoView]_vars

C3_Witness ==
    \E r \in Reqs :
        /\ Generation(r) /\ req[r].reveResult = "error" /\ req[r].reveCalls = 1
        /\ req[r].status = 500
        /\ req[r].usage.canGenerate

\* C4: when the provider call of an admitted request succeeds and no other
\* request names that user, the usage view of the 200 response shows the
\* generatedCount the admission read plus exactly 1.
C4_SuccessCountsOnce ==
    \A r \in Reqs :
        (Generation(r) /\ req[r].status = 200 /\ Alone(r))
            => req[r].usageAfter.generatedCount = req[r].usage.generatedCount + 1

\* C5: every usage view is the record's remainingFree = max(0, FREE_IMAGE_LIMIT
\* - generatedCount), hasActiveSubscription = (billingStatus = active) and
\* canGenerate = hasActiveSubscription or remainingFree > 0; so a free record
\* may generate exactly while generatedCount < FREE_IMAGE_LIMIT and an active
\* record always may.
C5_ViewOf(record, v) ==
    /\ v.generatedCount = record.generatedCount
    /\ v.billingStatus = record.billingStatus
    /\ v.remainingFree =
          (IF FREE_IMAGE_LIMIT - record.generatedCount > 0
           THEN FREE_IMAGE_LIMIT - record.generatedCount ELSE 0)
    /\ v.hasActiveSubscription = (record.billingStatus = "active")
    /\ v.canGenerate = (v.hasActiveSubscription \/ v.remainingFree > 0)
    /\ (record.billingStatus = "free" /\ record.generatedCount < FREE_IMAGE_LIMIT)
          => v.canGenerate
    /\ (record.billingStatus = "free" /\ record.generatedCount >= FREE_IMAGE_LIMIT)
          => ~v.canGenerate
    /\ record.billingStatus = "active" => v.canGenerate

\* C5: checked of the view buildUsageView gives for every record a backend
\* holds, and of every view a handler holds or has answered with.
C5_UsageView ==
    /\ \A record \in StoredRecords : C5_ViewOf(record, buildUsageView(record))
    /\ \A v \in Views : C5_ViewOf(v, v)

C5_Witness ==
    /\ \E v \in Views :
          v.billingStatus = "free" /\ v.generatedCount >= FREE_IMAGE_LIMIT /\ ~v.canGenerate
    /\ \E record \in StoredRecords :
          record.billingStatus = "active" /\ record.generatedCount >= FREE_IMAGE_LIMIT

\* C6: the stored billingStatus of a user changes only in a step of a webhook
\* request; no step of a create, enhance or status request changes it.
\* Stated for the steps of runs in which no store call fell back to the
\* local file, where the claim is about the interleaving alone.
C6_BillingOnlyByWebhook ==
    [][\A u \in Users :
          (/\ \A q \in Reqs : ~req'[q].viaLocal
           /\ RemoteBilling(u)' # RemoteBilling(u) \/ LocalBilling(u)' # LocalBilling(u))
              => \E r \in Reqs : req'[r] # req[r] /\ req'[r].kind = "webhook"]_vars

\* C7: the stored generatedCount of a user changes only in a step of a create
\* or enhance request; no step of a webhook request changes it.
\* Stated for the steps of runs in which no store call fell back to the
\* local file, where the claim is about the interleaving alone.
C7_CountOnlyByGeneration ==
    [][\A u \in Users :
          (/\ \A q \in Reqs : ~req'[q].viaLocal
           /\ RemoteCount(u)' # RemoteCount(u) \/ LocalCount(u)' # LocalCount(u))
              => \E r \in Reqs : req'[r] # req[r] /\ req'[r].kind \in {"create", "enhance"}]_vars

\* C8: the generatedCount a read of the usage record returns is never below
\* the generatedCount an earlier read of the same user returned.
C8_ReadsNeverDecrease ==
    [][\A r \in Reqs : \A c \in ReadCounts(req'[r]) \ ReadCounts(req[r]) :
          \A p \in Reqs : \A b \in ReadCounts(req[p]) :
              req[p].userId = req'[r].userId => b <= c]_vars

\* C9: when Supabase serves every store call and only generation and status
\* requests run, the stored generatedCount of a user, once its requests have
\* finished, is the number of its successful generations.
C9_RemoteCountsEveryGeneration ==
    \A u \in Users :
        (/\ supabase
         /\ \A r \in Reqs : ~req[r].viaLocal /\ req[r].kind # "webhook"
         /\ Quiescent(u))
            => RemoteCount(u) = reveOk[u]

\* two generation requests of user u that were both admitted on a read of
\* generatedCount = 0 and both succeeded, every store call on the local file
RacedOnLocal(u) ==
    /\ \A r \in Reqs : ~req[r].viaRemote
    /\ \E r, p \in Reqs :
          /\ r # p
          /\ \A x \in {r, p} :
                /\ Generation(x) /\ req[x].userId = u /\ req[x].status = 200
                /\ req[x].usage.generatedCount = 0

\* C10 as stated: on the local file, two concurrent successful generations of
\* one user can end with generatedCount risen by only 1. The concurrent
\* generations are those of RacedOnLocal; this is the outcome the claim
\* gives them.
C10_LostIncrementOnLocal ==
    \A u \in Users : RacedOnLocal(u) => LocalCount(u) = 1

\* C10 as amended: while the local file serves every store call, the stored
\* generatedCount of a user, once its requests have finished, is the number
\* of its successful generations: no increment is lost on the local file.
C10_LocalCountsEveryGeneration ==
    \A u \in Users :
        ((\A r \in Reqs : ~req[r].viaRemote) /\ Quiescent(u))
            => LocalCount(u) = reveOk[u]

C10_Witness ==
    \E u \in Users : RacedOnLocal(u) /\ Quiescent(u) /\ supabase /\ LocalCount(u) = 2

----------------------------------------------------------------------------
(* C11 - C20 *)

\* a store call of some request has returned a record of user u
Accessed(u) == \E r \in Reqs : req[r].userId = u /\ (req[r].viaRemote \/ req[r].viaLocal)

\* the UsageRecords user u has, the two backends counted together
RecordCount(u) ==
    (IF app_usage[u] = NoRow THEN 0 ELSE 1)
    + (IF usageFile.users[u] = NoRecord THEN 0 ELSE 1)

\* C11: every user that has been accessed has exactly one UsageRecord, the
\* app_usage table and the usage file counted together.
C11_OneRecordPerUser ==
    \A u \in Users : Accessed(u) => RecordCount(u) = 1

\* a webhook request whose X-Signature header is missing or wrong while a
\* webhook secret is configured
BadSignature(q) ==
    q.kind = "webhook" /\ lemonWebhookSecret /\ q.sig \in {"invalid", "missing"}

\* C12 as stated: with a secret configured, a webhook request whose signature
\* header is missing or wrong is answered 401, whatever its body.
C12_BadSignatureAnswered401 ==
    \A r \in Reqs : BadSignature(req[r]) => req[r].status = 401

\* C12 as amended: the step that receives such a webhook request answers it
\* at once, 401 when req.body is a Buffer and 400 when it is not, changes no
\* row of app_usage and no record of the usage file, and the request makes no
\* store call, whatever event and user the body names.
C12_BadSignatureChangesNothing ==
    [][\A r \in Reqs :
          (req[r].kind = "idle" /\ BadSignature(req'[r]))
              => /\ app_usage' = app_usage
                 /\ usageFile' = usageFile
                 /\ req'[r].pc = "done"
                 /\ req'[r].status = (IF req'[r].body = "nobuffer" THEN 400 ELSE 401)
                 /\ req'[r].updater = None
                 /\ ~req'[r].viaRemote /\ ~req'[r].viaLocal]_vars

\* a webhook with a wrong signature whose body names an activation event is
\* answered 401 while a record is stored
C12_Witness ==
    \E r \in Reqs :
        /\ BadSignature(req[r]) /\ req[r].body = "object" /\ req[r].sig = "invalid"
        /\ req[r].eventName \in activationEvents
        /\ req[r].status = 401
        /\ StoredRecords # {}

\* how the webhook action sees a header: missing, valid or invalid
SigOf(c) ==
    IF ~c.signatureHeader.present \/ c.signatureHeader.value = <<>> THEN "missing"
    ELSE IF c.signatureHeader.value
              = createHmacDigestHex(getLemonWebhookSecret(c.env).value, c.rawBody)
         THEN "valid"
         ELSE "invalid"

\* no usable secret: the variable unset, empty, or nothing but whitespace
Permissive(env) == ~env.set \/ \A i \in 1..Len(env.value) : env.value[i] = " "

\* C13: verifyLemonSignature accepts exactly when no webhook secret is
\* configured (unset, empty or whitespace only), or a secret is configured,
\* the header is present and it is the hex digest of the raw body under that
\* secret; a missing header, a header of another length and a header of
\* other content are rejected.  The webhook action's verifyLemonSignature
\* gives the same answer on the call's secret and header seen as
\* configured-or-not and missing / valid / invalid.
C13_AcceptsIff ==
    (call.fn = "verifyLemonSignature" /\ call.done)
        => LET digest == createHmacDigestHex(call.env.value, call.rawBody)
               header == call.signatureHeader
           IN  /\ call.result
                     <=> \/ Permissive(call.env)
                         \/ /\ ~Permissive(call.env)
                            /\ header.present
                            /\ header.value = digest
               /\ (~Permissive(call.env) /\ ~header.present) => ~call.result
               /\ (~Permissive(call.env) /\ Len(header.value) # DigestLen) => ~call.result
               /\ (~Permissive(call.env) /\ header.value # digest) => ~call.result
               /\ call.result = verifyLemonSignature(~Permissive(call.env), SigOf(call))

\* a secret with a leading blank configured, and the header is the digest
\* of the body under it: accepted
C13_Witness ==
    /\ call.fn = "verifyLemonSignature" /\ call.done
    /\ call.env.value = <<" ", "k">>
    /\ call.rawBody = <<"{", "}">>
    /\ call.signatureHeader.present
    /\ call.signatureHeader.value = createHmacDigestHex(call.env.value, call.rawBody)
    /\ call.result

\* the billingStatus getUsageRecord(u) returns when every call it makes
\* succeeds: that of the app_usage row with a Supabase client (a row it
\* has to insert is free), that of the usage file without one
PrimaryBilling(u) == IF supabase THEN RemoteBilling(u) ELSE LocalBilling(u)

\* a webhook that passed verification and named an event and a user, answered
Processed(r) ==
    /\ req[r].kind = "webhook" /\ req[r].userId # None /\ req[r].eventName # None
    /\ req[r].status = 200

\* C14: a verified webhook that names an event and a user, no other request
\* naming that user: an activation event leaves the user's billingStatus
\* active, a deactivation event leaves it free, the two sets are disjoint, and
\* any other event is answered 200 without a store call, no record created.
C14_EventMapping ==
    /\ activationEvents \cap deactivationEvents = {}
    /\ \A r \in Reqs :
          (Processed(r) /\ Alone(r))
              => LET q == req[r]
                 IN  /\ q.eventName \in activationEvents
                          => PrimaryBilling(q.userId) = "active"
                     /\ q.eventName \in deactivationEvents
                          => PrimaryBilling(q.userId) = "free"
                     /\ q.eventName \notin (activationEvents \cup deactivationEvents)
                          => /\ q.updater = None
                             /\ ~q.viaRemote /\ ~q.viaLocal
                             /\ RecordCount(q.userId) = 0

\* a webhook request that passed verification, whose payload is an object
\* without an event name or without a user id at the three places probed
LacksEventOrUser(q) ==
    /\ q.kind = "webhook" /\ q.body = "object"
    /\ verifyLemonSignature(lemonWebhookSecret, q.sig)
    /\ (q.eventName = None \/ q.userId = None)

\* C15: the step that receives a verified webhook whose payload lacks the
\* event name or the user id answers it at once with a 2xx status, makes no
\* store call and leaves app_usage and the usage file as they were.
C15_IgnoredIsNoOp ==
    [][\A r \in Reqs :
          (req[r].kind = "idle" /\ LacksEventOrUser(req'[r]))
              => /\ app_usage' = app_usage
                 /\ usageFile' = usageFile
                 /\ req'[r].pc = "done"
                 /\ req'[r].status \in 200..299
                 /\ req'[r].updater = None
                 /\ ~req'[r].viaRemote /\ ~req'[r].viaLocal]_vars

\* a signed activation event without a user id is answered 200 while a
\* record is stored
C15_Witness ==
    \E r \in Reqs :
        /\ LacksEventOrUser(req[r]) /\ lemonWebhookSecret /\ req[r].sig = "valid"
        /\ req[r].eventName \in activationEvents /\ req[r].userId = None
        /\ req[r].status = 200
        /\ StoredRecords # {}

\* the generatedCount getUsageRecord(u) returns when every call it makes succeeds
PrimaryCount(u) == IF supabase THEN RemoteCount(u) ELSE LocalCount(u)

\* q is a delivery of the event the processed webhook p delivered
SameEvent(p, q) ==
    /\ p.kind = "webhook" /\ p.status = 200 /\ p.userId # None
    /\ p.eventName \in activationEvents \cup deactivationEvents
    /\ q.kind = "webhook" /\ q.userId = p.userId /\ q.eventName = p.eventName

\* C16: when a verified webhook event has been processed and the same event
\* (name and user) is delivered again as the very next request, no step of
\* the second delivery changes the user's billingStatus or generatedCount:
\* they stay what the first delivery left.  Stated for a first delivery that
\* left the billingStatus its event maps to.
C16_DuplicateDeliveryChangesNothing ==
    [][\A u \in Users :
          (/\ SameEvent(req[2], req'[1]) /\ req'[1].userId = u
           /\ PrimaryBilling(u) = req[2].updater)
              => /\ PrimaryBilling(u)' = PrimaryBilling(u)
                 /\ PrimaryCount(u)' = PrimaryCount(u)]_vars

\* C17: when a verified subscription_created webhook of a user has been
\* answered and the very next request is a create or enhance request of that
\* user, the admission check of that request allows the generation: the
\* request is not answered 402, whatever the user's generatedCount.
C17_AdmittedAfterActivation ==
    (/\ req[2].kind = "webhook" /\ req[2].eventName = "subscription_created"
     /\ req[2].userId # None /\ req[2].status = 200
     /\ Generation(1) /\ req[1].userId = req[2].userId)
        => /\ req[1].status # 402
           /\ req[1].usage # NoView => req[1].usage.canGenerate

\* a record or usage view with the caller's userId, a generatedCount that is
\* a natural number and a billingStatus that is free or active
WellFormed(record, userId) ==
    /\ record.userId = userId
    /\ record.generatedCount \in Nat
    /\ record.billingStatus \in {"free", "active"}

\* what the store calls of request q have returned to it so far
Returned(q) ==
    ({q.current} \ {NoRecord}) \cup ({q.usage, q.usageAfter} \ {NoView})

\* the updateUsageRecord call of request q has returned
UpdateReturned(q) ==
    /\ q.updater # None
    /\ \/ q.kind = "webhook" /\ q.pc = "done"
       \/ q.kind \in {"create", "enhance"} /\ q.at = "after"

\* C18: with a Supabase client configured, a request none of whose store
\* calls Supabase served still gets every getUsageRecord and
\* updateUsageRecord call answered: from the local file, with a well-formed
\* record of the caller, the update kept in the file, and no 500 other than
\* the one of a failed provider or checkout call.
C18_FallbackTransparent ==
    \A r \in Reqs :
        (supabase /\ req[r].userId # None /\ ~req[r].viaRemote)
            => LET q == req[r]
                   stored == usageFile.users[q.userId]
               IN  /\ \A record \in Returned(q) : WellFormed(record, q.userId)
                   /\ Returned(q) # {} => (q.viaLocal /\ stored # NoRecord)
                   /\ stored # NoRecord => WellFormed(stored, q.userId)
                   /\ UpdateReturned(q)
                          => /\ q.viaLocal /\ stored # NoRecord
                             /\ q.updater = "inc" => stored.generatedCount >= 1
                             /\ (q.updater # "inc" /\ Alone(r))
                                    => stored.billingStatus = q.updater
                   /\ q.status = 500
                          => \/ q.reveResult = "error"
                             \/ (q.usage # NoView /\ ~q.usage.canGenerate)

\* a generation whose every Supabase call failed is answered 200 with the
\* count the local file holds
C18_Witness ==
    \E r \in Reqs :
        /\ supabase /\ ~req[r].viaRemote /\ req[r].viaLocal
        /\ Generation(r) /\ req[r].status = 200
        /\ req[r].usageAfter.generatedCount = 1
        /\ usageFile.users[req[r].userId].generatedCount = 1
        /\ app_usage[req[r].userId] = NoRow

\* C19: with requests issued one at a time and no billing event, so that the
\* user's billingStatus stays free, the image-generation calls the provider
\* completes for the user never exceed FREE_IMAGE_LIMIT, whichever Supabase
\* calls fail.
C19_FreeLimitOneAtATime ==
    /\ RemoteBilling(SeqUser) = "free" /\ LocalBilling(SeqUser) = "free"
    /\ reveOk[SeqUser] <= FREE_IMAGE_LIMIT

\* C20: when one backend serves an updateUsageRecord call and the
\* getUsageRecord call that follows it, nothing in between, the record
\* fetched equals the record the update returned in userId, generatedCount,
\* billingStatus and the two provider ids, and it is the caller's record.
C20_RoundTrip ==
    (call.fn = "roundTrip" /\ call.step = "done")
        => /\ call.fetched.userId = call.updated.userId
           /\ call.fetched.generatedCount = call.updated.generatedCount
           /\ call.fetched.billingStatus = call.updated.billingStatus
           /\ call.fetched.lemonCustomerId = call.updated.lemonCustomerId
           /\ call.fetched.lemonSubscriptionId = call.updated.lemonSubscriptionId
           /\ call.fetched.userId = call.userId

\* the increment of a stored local record that carries a customer id, read back
C20_Witness ==
    /\ call.fn = "roundTrip" /\ call.step = "done" /\ call.backend = "local"
    /\ call.updater = "inc"
    /\ call.updated.generatedCount = MaxStored + 1
    /\ call.updated.lemonCustomerId \in CustomerIds
    /\ call.fetched = call.updated

----------------------------------------------------------------------------
(* C21 - C30 *)

\* the records the two backends hold for user u
RecordsOf(u) ==
    (IF app_usage[u] = NoRow THEN {} ELSE {mapDbUsageRowToUsageRecord(app_usage[u])})
    \cup (IF usageFile.users[u] = NoRecord THEN {} ELSE {usageFile.users[u]})

\* C21: the step in which the getUsageRecord call of a status request
\* returns: for a user without a stored record the default record is
\* created in the backend that serves the call and the view answered shows
\* generatedCount 0, remainingFree FREE_IMAGE_LIMIT and canGenerate; for a
\* user that has a record the view is that of the stored record and the
\* store is left as it was.
C21_GetCreatesOrReturns ==
    [][\A r \in Reqs : \A u \in Users :
          (/\ req[r].kind = "status" /\ req[r].userId = u
           /\ req[r].pc \in {"get", "insert"} /\ req'[r].pc = "done")
              => IF RecordsOf(u) = {}
                 THEN /\ req'[r].usage = buildUsageView(NewRecord(u))
                      /\ req'[r].usage.remainingFree = FREE_IMAGE_LIMIT
                      /\ req'[r].usage.canGenerate
                      /\ RecordsOf(u)' = {NewRecord(u)}
                      /\ req'[r].viaRemote => app_usage'[u] = NewRow(u)
                      /\ req'[r].viaLocal => usageFile'.users[u] = NewRecord(u)
                 ELSE /\ \E record \in RecordsOf(u) : req'[r].usage = buildUsageView(record)
                      /\ app_usage' = app_usage
                      /\ \A x \in Users : usageFile'.users[x] = usageFile.users[x]]_vars

\* C22: on a usage.json holding invalid JSON, or JSON without a users object,
\* every local get and update succeeds and treats the store as empty: it
\* returns and leaves on disk what the same operation does on a store with no
\* record, and the next read of the user returns the record it left.
C22_CorruptFileIsEmptyStore ==
    (call.fn = "local" /\ call.found.form \in CorruptForms /\ call.step # "op")
        => LET asEmpty == applyLocalOp(call.op, JsonFile(NoUsers), call.userId)
           IN  /\ call.returned = asEmpty.record
               /\ call.written = asEmpty.file
               /\ call.step = "done" => call.reread = call.returned
\* C23: a create or enhance request answered 400 or 402 has no side effect:
\* no step of it, up to the denial and the answer, creates or changes a record
\* in either backend, it calls neither the optimizer nor the image provider,
\* and a request without clientUserId is answered on arrival, before any
\* store call.
C23_RejectedChangesNothing ==
    [][\A r \in Reqs :
          (/\ req'[r].kind \in {"create", "enhance"}
           /\ req'[r] # req[r]
           /\ req'[r].status \in {400, 402} \/ req'[r].pc = "checkout")
              => /\ app_usage' = app_usage
                 /\ \A u \in Users : usageFile'.users[u] = usageFile.users[u]
                 /\ req'[r].optCalls = 0 /\ req'[r].reveCalls = 0
                 /\ req'[r].userId = None
                       => /\ req[r].kind = "idle"
                          /\ ~req'[r].viaRemote /\ ~req'[r].viaLocal]_vars
\* C24: a denied create or enhance request is answered 402 with the usage view
\* that denied it, whatever the checkout gateway does: with a checkoutUrl when
\* the checkout succeeds, with a billingMessage otherwise, never another status.
C24_DenialAlways402 ==
    [][\A r \in Reqs :
          (req[r].pc = "checkout" /\ req'[r] # req[r])
              => /\ req'[r].pc = "done"
                 /\ req'[r].status = 402
                 /\ req'[r].checkout \in {"url", "message"}
                 /\ req'[r].usage = req[r].usage
                 /\ ~req'[r].usage.canGenerate]_vars
\* C25: whatever happens to the optimizer call, the request goes on to the
\* image-generation call, and when the optimizer fails (no key, network
\* error, non-2xx answer, unparsable or empty answer) the prompt passed to
\* the provider is the original prompt and optimized is false.
C25_OptimizerNeverAborts ==
    (call.fn = "optimize" /\ call.step = "done")
        => /\ call.sent.present
           /\ (call.outcome.kind # "answer" \/ EmptyAnswer(call.outcome))
                 => /\ call.sent.value = clampPrompt(call.prompt)
                    /\ ~call.promptResult.optimized
\* the request's upscaleFactor is the number n
IsNumber(value, n) == value.type = "number" /\ value.num = n

\* an upscale entry was sent for the call
SentUpscale == call.fn = "upscale" /\ call.step = "done" /\ call.postprocessing.process = "upscale"

\* C26 as stated: the upscale_factor sent is in {2, 3, 4}; it is the given
\* value when that is 2, 3 or 4, and 2 for every other value.
C26_FactorNormalized ==
    SentUpscale
        => /\ call.postprocessing.upscale_factor \in {2, 3, 4}
           /\ \A n \in {2, 3, 4} :
                 IsNumber(call.upscaleFactor, n) => call.postprocessing.upscale_factor = n
           /\ (\A n \in {2, 3, 4} : ~IsNumber(call.upscaleFactor, n))
                 => call.postprocessing.upscale_factor = 2

\* the value is a string, or an array of one string or number, that Number()
\* converts to 3 or 4
ConvertsTo3Or4(value) ==
    /\ value.type \in {"string", "array"}
    /\ ~ToNumber(value).nan /\ ToNumber(value).value \in {3, 4}

\* C26, amended: the upscale_factor sent is in {2, 3, 4}; it is the given value
\* when that is the number 2, 3 or 4; it is 3 or 4 for a string or one-element
\* array that converts to that number; it is 2 for every other value: missing,
\* null, booleans, objects, every other number, every other string and array.
C26_FactorNormalizedByNumber ==
    SentUpscale
        => /\ call.postprocessing.upscale_factor \in {2, 3, 4}
           /\ \A n \in {2, 3, 4} :
                 IsNumber(call.upscaleFactor, n) => call.postprocessing.upscale_factor = n
           /\ ConvertsTo3Or4(call.upscaleFactor)
                 => call.postprocessing.upscale_factor = ToNumber(call.upscaleFactor).value
           /\ (/\ \A n \in {2, 3, 4} : ~IsNumber(call.upscaleFactor, n)
               /\ ~ConvertsTo3Or4(call.upscaleFactor))
                 => call.postprocessing.upscale_factor = 2

\* Scenario F: the factor 7 was given and 2 was sent
C26_Witness ==
    SentUpscale /\ IsNumber(call.upscaleFactor, 7) /\ call.postprocessing.upscale_factor = 2
Extracted == call.fn = "extract" /\ call.step = "done"

HoldsString(located) == located.holds = "string"

HoldsUserId(located) == located.holds = "string" /\ located.value # ""

\* C27 as stated: the user id is the first string in the order
\* meta.custom_data.user_id, data.attributes.custom_data.user_id,
\* data.attributes.user_id, whatever later places hold, and it is missing only
\* when none of the three holds a string.
C27_FirstStringWins ==
    Extracted
        => LET p == call.payload
           IN  /\ HoldsString(p.metaCustom) => call.userId = [null |-> FALSE, value |-> p.metaCustom.value]
               /\ (~HoldsString(p.metaCustom) /\ HoldsString(p.dataCustom))
                     => call.userId = [null |-> FALSE, value |-> p.dataCustom.value]
               /\ (~HoldsString(p.metaCustom) /\ ~HoldsString(p.dataCustom) /\ HoldsString(p.direct))
                     => call.userId = [null |-> FALSE, value |-> p.direct.value]
               /\ call.userId.null
                     <=> (~HoldsString(p.metaCustom) /\ ~HoldsString(p.dataCustom)
                          /\ ~HoldsString(p.direct))

\* C27, amended: the user id is the first non-empty string in that order,
\* whatever later places hold; an empty string is passed over like a missing
\* value; the payload is without user id (null or empty, and ignored) only
\* when none of the three places holds a non-empty string.
C27_FirstNonEmptyStringWins ==
    Extracted
        => LET p == call.payload
           IN  /\ HoldsUserId(p.metaCustom) => call.userId = [null |-> FALSE, value |-> p.metaCustom.value]
               /\ (~HoldsUserId(p.metaCustom) /\ HoldsUserId(p.dataCustom))
                     => call.userId = [null |-> FALSE, value |-> p.dataCustom.value]
               /\ (~HoldsUserId(p.metaCustom) /\ ~HoldsUserId(p.dataCustom) /\ HoldsUserId(p.direct))
                     => call.userId = [null |-> FALSE, value |-> p.direct.value]
               /\ call.ignored
                     <=> (~HoldsUserId(p.metaCustom) /\ ~HoldsUserId(p.dataCustom)
                          /\ ~HoldsUserId(p.direct))
               /\ call.ignored <=> ~Truthy(call.userId)

\* the first place names u1, the last one u2, and u1 was extracted
C27_Witness ==
    /\ Extracted
    /\ call.payload.metaCustom = String("u1") /\ call.payload.direct = String("u2")
    /\ call.userId = [null |-> FALSE, value |-> "u1"]
\* C28: every request that arrived at the status, create-checkout, webhook,
\* create-remove-bg or enhance route is eventually answered, provided every
\* external call returns or fails, also when a store call raises inside the
\* webhook handler.
C28_EveryRequestAnswered ==
    \A r \in Reqs : (req[r].kind # "idle") ~> (req[r].pc = "done" /\ req[r].status # 0)
\* the webhook passed the Buffer check and the signature check
Verified(q) ==
    q.kind = "webhook" /\ q.body # "nobuffer" /\ verifyLemonSignature(lemonWebhookSecret, q.sig)

\* C29: a verified webhook whose body is not valid JSON, or is JSON that is
\* not an object (null, a number, a string, a boolean, an array), is answered
\* 400 and makes no store call, so that it creates and changes no record.
C29_MalformedBodyAnswered400 ==
    \A r \in Reqs :
        (Verified(req[r]) /\ req[r].body \in {"badjson", "nonobject", "array"})
            => /\ req[r].pc = "done" /\ req[r].status = 400
               /\ req[r].updater = None
               /\ ~req[r].viaRemote /\ ~req[r].viaLocal
\* C30: the rendered App shows the text "Creator Super Tool", a button whose
\* accessible name is "Create" and a button whose accessible name is
\* "Run BG / Enhance".
C30_RendersCreateAndEnhance ==
    call.fn = "app"
        => /\ "Creator Super Tool" \in RenderedTexts(call)
           /\ "Create" \in RenderedButtons(call)
           /\ "Run BG / Enhance" \in RenderedButtons(call)
----------------------------------------------------------------------------
(* C31 - C34 *)

\* the webhook deliveries so far have all been answered
BetweenDeliveries == req[1].pc \in {"idle", "done"}

\* the last answered activation or deactivation event, IdleReq when there is none
LastBillingEvent == IF BillingEvent(req[1]) THEN req[1] ELSE req[2]

\* C31: after webhook events of a user processed one after another, the
\* user's billingStatus is active when the last activation or deactivation
\* event among them is an activation event, free when it is a deactivation
\* event, and free when there was no such event.
C31_LastEventWins ==
    BetweenDeliveries
        => PrimaryBilling(SeqUser) =
              (IF LastBillingEvent.eventName \in activationEvents THEN "active" ELSE "free")
\* the billingStatus an activation or deactivation event maps to
MappedStatus(eventName) == IF eventName \in activationEvents THEN "active" ELSE "free"

\* the webhook served is the first activation or deactivation event of the
\* user: no record of the user was stored when it arrived
FirstBillingEvent ==
    /\ req[1].kind = "webhook" /\ req[1].userId = SeqUser /\ req[1].pc = "done"
    /\ req[1].eventName \in activationEvents \cup deactivationEvents
    /\ req[2] = IdleReq

\* C32: a verified activation or deactivation webhook for a user without
\* stored record is answered 200 and leaves the user a record with
\* generatedCount 0 and the billingStatus the event maps to: that is what
\* the user's stored record is.
C32_WebhookCreatesRecord ==
    FirstBillingEvent
        => /\ req[1].status = 200
           /\ RecordsOf(SeqUser) # {}
           /\ \A record \in RecordsOf(SeqUser) :
                 /\ record.generatedCount = 0
                 /\ record.billingStatus = MappedStatus(req[1].eventName)
\* C33: a step of a request that names user u (a get, a generation's
\* increment, a webhook's billing status, with their fallbacks) leaves the
\* record of every other user as it was, in app_usage and in the usage file,
\* however the requests of different users interleave.
C33_OtherUsersUnchanged ==
    [][\A r \in Reqs :
          req'[r] # req[r]
              => \A x \in Users \ {req'[r].userId} :
                    /\ app_usage'[x] = app_usage[x]
                    /\ usageFile'.users[x] = usageFile.users[x]]_vars

\* two requests of different users were in flight together, both served by
\* the usage file: a counted generation of u1 and a record of u2 are stored
C33_Witness ==
    /\ req[1].userId = "u1" /\ req[2].userId = "u2"
    /\ req[1].viaLocal /\ req[2].viaLocal
    /\ Generation(1) /\ req[1].status = 200 /\ Finished(2)
    /\ LocalCount("u1") = 1
    /\ usageFile.users["u2"] # NoRecord
\* the item is a string that is not blank
NonBlank(item) == ~item.null /\ trim(item.value) # <<>>

\* C34: every call of getOrCreateClientUserId returns the identifier the
\* first call returned, which is the one in local storage; local storage is
\* written at most once, by the first call, and only when it held no
\* non-blank identifier; an identifier found there is returned as it is.
C34_ClientUserIdStable ==
    (call.fn = "clientId" /\ call.calls > 0)
        => /\ call.returned = call.firstReturned
           /\ call.storage = call.returned
           /\ NonBlank(call.returned)
           /\ call.writes = (IF NonBlank(call.found) THEN 0 ELSE 1)
           /\ NonBlank(call.found) => call.returned = call.found

\* a later call, after the first one stored a generated identifier
C34_Witness ==
    /\ call.fn = "clientId" /\ call.calls = MaxCalls
    /\ ~NonBlank(call.found) /\ call.writes = 1
    /\ call.returned = call.firstReturned
====
